---- MODULE Spec2Model ----
(***************************************************************************)
(* Model of the map-legacy script front end: the expression grammar        *)
(* (parsing/expression.rs and the older parsing/mod.rs), the statement and *)
(* block grammar (parsing/mod.rs), the parse-error type and its renderer   *)
(* (parsing/error.rs) and the lazily built key alias table (key_defs.rs).  *)
(*                                                                         *)
(* Input text is a sequence of one-character strings.  A parser takes the  *)
(* text and a 1-based position and returns [ok, pos, val]: on success pos  *)
(* is the position of the remaining input and val the value built, on      *)
(* failure pos is where the failure was raised.                            *)
(***************************************************************************)
EXTENDS Naturals, Sequences, FiniteSets, TLC

VARIABLES
    exprIn,     \* the expression under parse: [first, rest, style]
    exprPc,     \* "input", or the parser that produced exprRes
    exprRes,    \* the parser's result
    errText,    \* the original input a failure is rendered against
    errPc,      \* "off", "start", "failed" or "converted"
    errTried,   \* the failures of the alternatives tried, in attempt order
    errAcc,     \* the failure the alternation has accumulated
    errOut,     \* what convert_custom_error returned
    blkIn,      \* the script under parse: [stmts, bad, badAt, style]
    blkPc,      \* "input", or the parser that produced blkRes
    blkRes,     \* the parser's result
    onceState,  \* the Once guarding KEY_ALIAS_TABLE
    lazyCell,   \* the storage of KEY_ALIAS_TABLE: None or Some(table)
    lazyM,      \* the map m the initializer is filling
    builds,     \* how many times the initializer has been started
    thrPc,      \* where each thread is in its lookup
    thrSeen,    \* the table each thread's last lookup read
    evCode,     \* the event code an InputEvGroup is built for
    evPc,       \* "off", "input", "built" or "key"
    evGroup,    \* the InputEvGroup built
    evKey,      \* what to_key returned
    foldIn,     \* an expression and what follows it: [first, rest, style, op, junk]
    foldPc,     \* "off", "input", or the fold level that produced foldRes
    foldRes     \* the fold level's result

varsExpr == <<exprIn, exprPc, exprRes>>
varsErr == <<errText, errPc, errTried, errAcc, errOut>>
varsBlk == <<blkIn, blkPc, blkRes>>
varsLazy == <<onceState, lazyCell, lazyM, builds, thrPc, thrSeen>>
varsEv == <<evCode, evPc, evGroup, evKey>>
varsFold == <<foldIn, foldPc, foldRes>>
vars == <<varsExpr, varsErr, varsBlk, varsLazy, varsEv, varsFold>>

\* ------------------------------------------------------------------ bounds

\* Largest number of operators chained in one generated expression.
MaxOps == 2

\* Longest generated input text of the diagnostics.
MaxLen == 3

\* Largest number of failed alternatives merged into one failure.
MaxAlts == 2

\* Largest number of well-formed statements in one generated script.
MaxStmts == 3

\* Number of threads that look keys up concurrently.
NumThreads == 3

\* Largest key code an InputEvGroup is built for.
MaxCode == 24

\* Largest number of operators in an expression that is followed by a
\* repetition that fails.
MaxFoldOps == 1

\* ------------------------------------------------------------- primitives

Ok(p, v) == [ok |-> TRUE, pos |-> p, val |-> v]
Fail(p) == [ok |-> FALSE, pos |-> p, val |-> <<>>]

NoResult == [ok |-> FALSE, pos |-> 0, val |-> <<>>]

\* What is left of text t from position i on.
Rest(t, i) == SubSeq(t, i, Len(t))

\* nom's tag: the literal s at position i.
tag(t, i, s) ==
    IF i + Len(s) - 1 <= Len(t) /\ SubSeq(t, i, i + Len(s) - 1) = s
    THEN Ok(i + Len(s), s)
    ELSE Fail(i)

WhiteSpace == {" ", "\t", "\r", "\n"}

\* nom's multispace0 (and ws0): skips zero or more whitespace characters,
\* never fails.
RECURSIVE SkipSpace(_, _)
SkipSpace(t, i) ==
    IF i <= Len(t) /\ t[i] \in WhiteSpace THEN SkipSpace(t, i + 1) ELSE i

multispace0(t, i) == Ok(SkipSpace(t, i), <<>>)

ws0(t, i) == multispace0(t, i)

\* The literal atoms: boolean and number.
boolean(t, i) ==
    IF tag(t, i, <<"t", "r", "u", "e">>).ok
    THEN Ok(i + 4, <<"Value", <<"Bool", "true">>>>)
    ELSE IF tag(t, i, <<"f", "a", "l", "s", "e">>).ok
    THEN Ok(i + 5, <<"Value", <<"Bool", "false">>>>)
    ELSE Fail(i)

Digits == {"1", "2"}

number(t, i) ==
    IF i <= Len(t) /\ t[i] \in Digits
    THEN Ok(i + 1, <<"Value", <<"Number", t[i]>>>>)
    ELSE Fail(i)

\* ------------------------------------------------ expression.rs: the chain

\* The operator alternatives of each fold level, in the order alt tries them.
LevelOps(level) ==
    CASE level = "expr_2" -> <<"*", "/">>
      [] level = "expr_1" -> <<"+", "-">>
      [] level = "expr" -> <<"==", "!=", "&&", "||", "<", ">">>
      [] level = "mod_expr" -> <<"==", "!=">>

OpText(op) ==
    CASE op = "*" -> <<"*">>
      [] op = "/" -> <<"/">>
      [] op = "+" -> <<"+">>
      [] op = "-" -> <<"-">>
      [] op = "==" -> <<"=", "=">>
      [] op = "!=" -> <<"!", "=">>
      [] op = "&&" -> <<"&", "&">>
      [] op = "||" -> <<"|", "|">>
      [] op = "<" -> <<"<">>
      [] op = ">" -> <<">">>

\* alt over tags: the first alternative of ops (from index k on) that matches.
RECURSIVE AltTag(_, _, _, _)
AltTag(t, i, ops, k) ==
    IF k > Len(ops) THEN Fail(i)
    ELSE IF tag(t, i, OpText(ops[k])).ok
         THEN Ok(i + Len(OpText(ops[k])), ops[k])
         ELSE AltTag(t, i, ops, k + 1)

\* The combining closures of the three folds.
CombineSwapped(level, acc, op, val) ==
    CASE op = "*" -> <<"Mul", val, acc>>
      [] op = "/" -> <<"Div", val, acc>>
      [] op = "+" -> <<"Add", val, acc>>
      [] op = "-" -> <<"Sub", val, acc>>
      [] op = "==" -> <<"Eq", val, acc>>
      [] op = "!=" -> <<"Neq", val, acc>>
      [] op = "&&" -> <<"And", val, acc>>
      [] op = "||" -> <<"Or", val, acc>>
      [] op = ">" -> <<"GT", val, acc>>
      [] op = "<" -> <<"LT", val, acc>>

Combine(level, acc, op, val) ==
    CASE level = "expr_2" /\ op = "*" -> <<"Mul", acc, val>>
      [] level = "expr_2" /\ op = "/" -> <<"Div", acc, val>>
      [] level = "expr_1" /\ op = "+" -> <<"Add", acc, val>>
      [] level = "expr_1" /\ op = "-" -> <<"Sub", acc, val>>
      [] level = "expr" /\ op = "==" -> <<"Eq", acc, val>>
      [] level = "expr" /\ op = "!=" -> <<"Neq", acc, val>>
      [] level = "expr" /\ op = "&&" -> <<"And", acc, val>>
      [] level = "expr" /\ op = "||" -> <<"Or", acc, val>>
      [] level = "expr" /\ op = ">" -> <<"GT", acc, val>>
      [] level = "expr" /\ op = "<" -> <<"LT", acc, val>>
      [] level = "mod_expr" /\ op = "==" -> <<"Eq", acc, val>>
      [] level = "mod_expr" /\ op = "!=" -> <<"Eq", acc, val>>

RECURSIVE Parse(_, _, _)
RECURSIVE fold_many0_once(_, _, _, _)

LowerSkipsAdditive(level, t, i) ==
    CASE level = "expr_2" -> Parse("expr_3", t, i)
      [] level = "expr_1" -> Parse("expr_2", t, i)
      [] level = "expr" -> Parse("expr_2", t, i)
      [] level = "mod_expr" -> Parse("expr_simple", t, i)

\* The lower level each fold level is built over.
Lower(level, t, i) ==
    CASE level = "expr_2" -> Parse("expr_3", t, i)
      [] level = "expr_1" -> Parse("expr_2", t, i)
      [] level = "expr" -> Parse("expr_1", t, i)
      [] level = "mod_expr" -> Parse("expr_simple", t, i)

\* One repetition of a fold level:
\* tuple((ws0, alt((tag(op), ...)), ws0, lower)).  val is <<op, term>>.
Repetition(level, t, i) ==
    LET o == AltTag(t, ws0(t, i).pos, LevelOps(level), 1)
        v == Lower(level, t, ws0(t, o.pos).pos)
    IN  IF ~o.ok THEN Fail(o.pos)
        ELSE IF ~v.ok THEN Fail(v.pos)
        ELSE Ok(v.pos, <<o.val, v.val>>)

fold_many0_onceStopsWhereItFailed(level, t, i, acc) ==
    LET r == Repetition(level, t, i)
    IN  IF ~r.ok THEN Ok(r.pos, acc)
        ELSE fold_many0_once(level, t, r.pos, Combine(level, acc, r.val[1], r.val[2]))

\* The repeat-and-combine combinator: apply the repetition until it fails,
\* folding each result into the accumulator; the failed repetition consumes
\* nothing.
fold_many0_once(level, t, i, acc) ==
    LET r == Repetition(level, t, i)
    IN  IF ~r.ok THEN Ok(i, acc)
        ELSE fold_many0_once(level, t, r.pos, Combine(level, acc, r.val[1], r.val[2]))

\* alt((map(tuple((tag("("), expr, tag(")"))), ..), boolean, string, number, ..)),
\* then ws0.
expr_4(t, i) ==
    LET open == tag(t, i, <<"(">>)
        inner == Parse("expr", t, open.pos)
        close == tag(t, inner.pos, <<")">>)
        paren == IF open.ok /\ inner.ok /\ close.ok
                 THEN Ok(close.pos, inner.val) ELSE Fail(i)
        b == boolean(t, i)
        n == number(t, i)
        atom == IF paren.ok THEN paren ELSE IF b.ok THEN b ELSE n
    IN  IF atom.ok THEN Ok(ws0(t, atom.pos).pos, atom.val) ELSE Fail(i)

expr_3(t, i) ==
    LET q == tag(t, i, <<"?", "?">>)
        v == Parse("expr_4", t, q.pos)
    IN  IF q.ok /\ v.ok THEN Ok(v.pos, <<"Neg", v.val>>) ELSE Parse("expr_4", t, i)

expr_2(t, i) ==
    LET init == Parse("expr_3", t, i)
    IN  IF ~init.ok THEN init ELSE fold_many0_once("expr_2", t, init.pos, init.val)

expr_1(t, i) ==
    LET init == Parse("expr_2", t, i)
    IN  IF ~init.ok THEN init ELSE fold_many0_once("expr_1", t, init.pos, init.val)

expr(t, i) ==
    LET init == Parse("expr_1", t, i)
    IN  IF ~init.ok THEN init ELSE fold_many0_once("expr", t, init.pos, init.val)

\* ------------------------------------------------------ mod.rs: expression

\* alt((boolean, string, lambda, ...)), then multispace0.
expr_simple(t, i) ==
    LET b == boolean(t, i)
    IN  IF b.ok THEN Ok(multispace0(t, b.pos).pos, b.val) ELSE Fail(i)

\* mod.rs expr: the fold of == and != over expr_simple.
mod_expr(t, i) ==
    LET init == Parse("expr_simple", t, i)
    IN  IF ~init.ok THEN init ELSE fold_many0_once("mod_expr", t, init.pos, init.val)

\* ------------------------------------------- mod.rs: statements and blocks

RECURSIVE many0_stmt(_, _, _)

\* tuple((tag("if"), multispace0, tag("("), multispace0, expr, multispace0,
\*        tag(")"), multispace0, block)) mapped to Stmt::If(v.4, v.8).
if_stmt(t, i) ==
    LET kw == tag(t, i, <<"i", "f">>)
        open == tag(t, multispace0(t, kw.pos).pos, <<"(">>)
        cond == Parse("mod_expr", t, multispace0(t, open.pos).pos)
        close == tag(t, multispace0(t, cond.pos).pos, <<")">>)
        body == Parse("block", t, multispace0(t, close.pos).pos)
    IN  IF ~kw.ok THEN Fail(kw.pos)
        ELSE IF ~open.ok THEN Fail(open.pos)
        ELSE IF ~cond.ok THEN Fail(cond.pos)
        ELSE IF ~close.ok THEN Fail(close.pos)
        ELSE IF ~body.ok THEN Fail(body.pos)
        ELSE Ok(body.pos, <<"If", cond.val, body.val>>)

\* alt((if_stmt, map(tuple((expr, tag(";"))), Stmt::Expr), map(block, Stmt::Block)))
stmt(t, i) ==
    LET s1 == Parse("if_stmt", t, i)
        e == Parse("mod_expr", t, i)
        semi == tag(t, e.pos, <<";">>)
        b == Parse("block", t, i)
    IN  IF s1.ok THEN s1
        ELSE IF e.ok /\ semi.ok THEN Ok(semi.pos, <<"Expr", e.val>>)
        ELSE IF b.ok THEN Ok(b.pos, <<"Block", b.val>>)
        ELSE Fail(i)

\* many0(tuple((multispace0, stmt))): the statements collected until the
\* pair fails; the failed pair consumes nothing.
many0_stmt(t, i, acc) ==
    LET r == Parse("stmt", t, multispace0(t, i).pos)
    IN  IF ~r.ok THEN Ok(i, acc)
        ELSE many0_stmt(t, r.pos, Append(acc, r.val))

\* A Block: its statements in order.
Block(statements) == <<"Block", statements>>

StatementsFirstLast(s1, s2) == s2 \o <<s1>>

\* statements = s2 ...; statements.insert(0, s1)
Statements(s1, s2) == <<s1>> \o s2

block_bodyRequired(t, i) ==
    LET s1 == Parse("stmt", t, i)
        s2 == many0_stmt(t, s1.pos, <<>>)
    IN  IF s1.ok THEN Ok(s2.pos, Block(Statements(s1.val, s2.val)))
        ELSE Fail(i)

\* opt(tuple((stmt, many0(..)))) mapped to a Block; no statement, an empty
\* Block and nothing consumed.
block_body(t, i) ==
    LET s1 == Parse("stmt", t, i)
        s2 == many0_stmt(t, s1.pos, <<>>)
    IN  IF s1.ok THEN Ok(s2.pos, Block(Statements(s1.val, s2.val)))
        ELSE Ok(i, Block(<<>>))

\* tuple((tag("{"), multispace0, block_body, multispace0, tag("}")))
block(t, i) ==
    LET open == tag(t, i, <<"{">>)
        body == Parse("block_body", t, multispace0(t, open.pos).pos)
        close == tag(t, multispace0(t, body.pos).pos, <<"}">>)
    IN  IF ~open.ok THEN Fail(open.pos)
        ELSE IF ~body.ok THEN Fail(body.pos)
        ELSE IF ~close.ok THEN Fail(close.pos)
        ELSE Ok(close.pos, body.val)

global_blockAllConsuming(t, i) ==
    LET body == Parse("block_body", t, multispace0(t, i).pos)
        end == multispace0(t, body.pos).pos
    IN  IF end = Len(t) + 1 THEN Ok(end, body.val) ELSE Fail(end)

\* tuple((multispace0, block_body, multispace0))
global_block(t, i) ==
    LET body == Parse("block_body", t, multispace0(t, i).pos)
    IN  IF ~body.ok THEN Fail(body.pos)
        ELSE Ok(multispace0(t, body.pos).pos, body.val)

\* The grammar rules by name: each rule reaches the rules it is built from
\* through this table.
Parse(rule, t, i) ==
    CASE rule = "expr_4" -> expr_4(t, i)
      [] rule = "expr_3" -> expr_3(t, i)
      [] rule = "expr_2" -> expr_2(t, i)
      [] rule = "expr_1" -> expr_1(t, i)
      [] rule = "expr" -> expr(t, i)
      [] rule = "expr_simple" -> expr_simple(t, i)
      [] rule = "mod_expr" -> mod_expr(t, i)
      [] rule = "if_stmt" -> if_stmt(t, i)
      [] rule = "stmt" -> stmt(t, i)
      [] rule = "block_body" -> block_body(t, i)
      [] rule = "block" -> block(t, i)

\* ------------------------------------------------- key_defs.rs: alias table

Threads == 1..NumThreads

\* The inserts of the initializer of KEY_ALIAS_TABLE, in order.
AliasEntries ==
    << <<" ", "KEY_SPACE">>, <<"'", "KEY_APOSTROPHE">>, <<",", "KEY_COMMA">>,
       <<"-", "KEY_MINUS">>, <<".", "KEY_DOT">>, <<";", "KEY_SEMICOLON">>,
       <<"=", "KEY_EQUAL">>, <<"SHIFT", "KEY_LEFTSHIFT">>, <<"ALT", "KEY_LEFTALT">>,
       <<"META", "KEY_LEFTMETA">>, <<"CTRL", "KEY_LEFTCTRL">>,
       <<"CAPS", "KEY_CAPSLOCK">> >>

\* Option<HashMap>: the storage before and after the table is stored.
None == [some |-> FALSE, table |-> {}]
Some(m) == [some |-> TRUE, table |-> m]

\* HashMap::insert: the entry for the key replaces any earlier one.
insert(m, e) == {x \in m : x[1] # e[1]} \cup {e}

call_onceUnguarded(state) ==
    CASE state = "COMPLETE" -> "get"
      [] state = "INCOMPLETE" -> "build"
      [] state = "RUNNING" -> "get"

\* What a caller of the Once does, by the state it finds: past a completed
\* initialization it reads, the first caller runs the initializer, and a
\* caller that finds it running waits for it.
call_once(state) ==
    CASE state = "COMPLETE" -> "get"
      [] state = "INCOMPLETE" -> "build"
      [] state = "RUNNING" -> "wait"

\* ------------------------------------------------- key_defs.rs: templates

make_key(event_code) == [event_code |-> event_code]

INPUT_EV_DUMMY_TIME == [tv_sec |-> 0, tv_usec |-> 0]

InputEvent(event_code, value, time) ==
    [event_code |-> event_code, value |-> value, time |-> time]

InputEvGroup_newRepeatAsDown(event_code) ==
    [up |-> InputEvent(event_code, 0, INPUT_EV_DUMMY_TIME),
     down |-> InputEvent(event_code, 1, INPUT_EV_DUMMY_TIME),
     repeat |-> InputEvent(event_code, 1, INPUT_EV_DUMMY_TIME)]

\* InputEvGroup::new
InputEvGroup_new(event_code) ==
    [up |-> InputEvent(event_code, 0, INPUT_EV_DUMMY_TIME),
     down |-> InputEvent(event_code, 1, INPUT_EV_DUMMY_TIME),
     repeat |-> InputEvent(event_code, 2, INPUT_EV_DUMMY_TIME)]

\* InputEvGroup::to_key
InputEvGroup_to_key(self) == make_key(self.up.event_code)

\* The group before any is built: the report event in all three places.
NoGroup ==
    [up |-> InputEvent(<<"EV_SYN", 0>>, 0, INPUT_EV_DUMMY_TIME),
     down |-> InputEvent(<<"EV_SYN", 0>>, 0, INPUT_EV_DUMMY_TIME),
     repeat |-> InputEvent(<<"EV_SYN", 0>>, 0, INPUT_EV_DUMMY_TIME)]

\* The event codes groups are built for: a type and a code.
EventCodes == {"EV_KEY", "EV_REL"} \X (0..MaxCode)

\* ------------------------------------------------- generated expressions

\* The atoms generated expressions are built from, by name.
AtomIds == {"true", "1", "negpar"}

AtomText(a) ==
    CASE a = "true" -> <<"t", "r", "u", "e">>
      [] a = "1" -> <<"1">>
      [] a = "negpar" -> <<"?", "?", "(", "1", "-", "2", ")">>

\* The tree each atom stands for.
AtomTree(a) ==
    CASE a = "true" -> <<"Value", <<"Bool", "true">>>>
      [] a = "1" -> <<"Value", <<"Number", "1">>>>
      [] a = "negpar" -> <<"Neg", <<"Sub", <<"Value", <<"Number", "1">>>>,
                                          <<"Value", <<"Number", "2">>>>>>>>

MulOps == {"*", "/"}
AddOps == {"+", "-"}
RelOps == {"==", "!=", "&&", "||", "<", ">"}
AllOps == MulOps \cup AddOps \cup RelOps

\* "tight": no whitespace; "spaced": one blank around every operator and
\* after the last atom.
Styles == {"tight", "spaced"}

Blank(style) == IF style = "spaced" THEN <<" ">> ELSE <<>>

Inputs ==
    [first : AtomIds,
     rest : UNION {[1..n -> AllOps \X AtomIds] : n \in 0..MaxOps},
     style : Styles]

RECURSIVE RenderRest(_, _, _)
RenderRest(rest, style, k) ==
    IF k > Len(rest) THEN Blank(style)
    ELSE Blank(style) \o OpText(rest[k][1]) \o Blank(style)
         \o AtomText(rest[k][2]) \o RenderRest(rest, style, k + 1)

\* The source text of a generated expression.
Render(in) == AtomText(in.first) \o RenderRest(in.rest, in.style, 1)

\* ------------------------------------------------------- reference trees

NodeName(op) ==
    CASE op = "*" -> "Mul" [] op = "/" -> "Div"
      [] op = "+" -> "Add" [] op = "-" -> "Sub"
      [] op = "==" -> "Eq" [] op = "!=" -> "Neq"
      [] op = "&&" -> "And" [] op = "||" -> "Or"
      [] op = "<" -> "LT" [] op = ">" -> "GT"

\* The expression as a list of <<operator, tree>>, the first operator "".
Items(in) ==
    <<<<"", AtomTree(in.first)>>>>
    \o [k \in 1..Len(in.rest) |-> <<in.rest[k][1], AtomTree(in.rest[k][2])>>]

\* Reduce by precedence: every item whose operator is in ops is merged into
\* the item on its left, left to right.
RECURSIVE ReduceFrom(_, _, _, _)
ReduceFrom(items, ops, acc, k) ==
    IF k > Len(items) THEN acc
    ELSE IF items[k][1] \in ops
         THEN ReduceFrom(items, ops,
                  [acc EXCEPT ![Len(acc)] =
                      <<acc[Len(acc)][1],
                        <<NodeName(items[k][1]), acc[Len(acc)][2], items[k][2]>>>>],
                  k + 1)
         ELSE ReduceFrom(items, ops, Append(acc, items[k]), k + 1)

Reduce(items, ops) == ReduceFrom(items, ops, <<items[1]>>, 2)

\* * and / first, then + and -.
RefArith(in) == Reduce(Reduce(Items(in), MulOps), AddOps)

\* ... then the six operators of the last tier, all alike.
RefExpr(in) == Reduce(RefArith(in), RelOps)

OpsOf(in) == {in.rest[k][1] : k \in 1..Len(in.rest)}
AtomsOf(in) == {in.first} \cup {in.rest[k][2] : k \in 1..Len(in.rest)}

\* --------------------------------------- expressions with a failing tail

\* What follows a generated expression and cannot be a repetition: nothing,
\* a closing parenthesis, or a parenthesis that is never closed.
JunkIds == {"", ")", "(1"}

JunkText(j) ==
    CASE j = "" -> <<>>
      [] j = ")" -> <<")">>
      [] j = "(1" -> <<"(", "1">>

FoldAtoms == {"1", "negpar"}

\* An expression, then an operator (or none, "") and the junk after it.
FoldInputs ==
    [first : FoldAtoms,
     rest : UNION {[1..n -> AllOps \X FoldAtoms] : n \in 0..MaxFoldOps},
     style : Styles,
     op : AllOps \cup {""},
     junk : JunkIds]

TailText(in) ==
    (IF in.op = "" THEN <<>> ELSE OpText(in.op) \o Blank(in.style))
    \o JunkText(in.junk)

Chain(in) == [first |-> in.first, rest |-> in.rest, style |-> in.style]

FoldText(in) == Render(Chain(in)) \o TailText(in)

\* The operators a level folds, its own and those of the levels below it.
Tier(level) ==
    CASE level = "expr_2" -> MulOps
      [] level = "expr_1" -> MulOps \cup AddOps
      [] level = "expr" -> AllOps

\* How many leading operators of the expression belong to the level.
RECURSIVE KeptFrom(_, _, _)
KeptFrom(rest, level, k) ==
    IF k > Len(rest) \/ rest[k][1] \notin Tier(level) THEN k - 1
    ELSE KeptFrom(rest, level, k + 1)

\* The part of the expression before the first repetition the level cannot
\* match.
Kept(in, level) ==
    [first |-> in.first,
     rest |-> SubSeq(in.rest, 1, KeptFrom(in.rest, level, 1)),
     style |-> in.style]

\* ------------------------------------------------------------ error.rs

\* A failure value: input is the byte offset at which its remaining-input
\* slice starts in the original input; the slice runs to the end of it.
CustomError(off, exp) == [input |-> off, expected |-> exp]

from_error_kind(off) == CustomError(off, <<>>)

from_char(off, ch) == CustomError(off, <<ch>>)

orClaimed(self, other) ==
    CustomError(other.input, self.expected \o other.expected)

\* other.expected.append(&mut self.expected); other
or(self, other) ==
    CustomError(other.input, other.expected \o self.expected)

NoFailure == CustomError(0, <<>>)

\* What convert_custom_error hands back: aborted when it panicked, else the
\* lines of the message (none for the empty string).
Returned(ls) == [aborted |-> FALSE, lines |-> ls]
Aborted == [aborted |-> TRUE, lines |-> <<>>]
NoOutput == Returned(<<>>)

\* prefix.iter().rev().position(|&b| b == b'\n'): how far back from the
\* offset the nearest newline is; -1 stands for None, kept as offset + 1.
RECURSIVE RevPosition(_, _, _)
RevPosition(input, offset, pos) ==
    IF pos >= offset THEN offset + 1
    ELSE IF input[offset - pos] = "\n" THEN pos
    ELSE RevPosition(input, offset, pos + 1)

line_begin(input, offset) ==
    LET pos == RevPosition(input, offset, 0)
    IN  IF pos = offset + 1 THEN 0 ELSE offset - pos

\* str::lines().next(): the text up to the first line break, without it.
RECURSIVE FirstLine(_, _)
FirstLine(s, k) ==
    IF k > Len(s) THEN s
    ELSE IF s[k] = "\n"
         THEN IF k > 1 /\ s[k - 1] = "\r" THEN SubSeq(s, 1, k - 2)
              ELSE SubSeq(s, 1, k - 1)
         ELSE FirstLine(s, k + 1)

RECURSIVE trim_end(_)
trim_end(s) ==
    IF s # <<>> /\ s[Len(s)] \in WhiteSpace
    THEN trim_end(SubSeq(s, 1, Len(s) - 1)) ELSE s

\* {caret:>column$}: the caret right-aligned in a field of width column.
Caret(column) == [k \in 1..column |-> IF k = column THEN "^" ELSE " "]

convert_custom_error(input, err) ==
    IF err.expected = <<>> THEN Aborted
    ELSE IF input = <<>> THEN Returned(<<>>)
    ELSE LET offset == err.input
             line_number ==
                 Cardinality({k \in 1..offset : input[k] = "\n"}) + 1
             begin == line_begin(input, offset)
             line == trim_end(FirstLine(Rest(input, begin + 1), 1))
             column_number == (offset - begin) + 1
         IN  Returned(<< <<"err: at line", line_number>>,
                         line,
                         Caret(column_number),
                         <<"expected", err.expected[1]>> >>)

\* --------------------------------------------- diagnostics: inputs, reference

TextChars == {"a", " ", "\n"}

\* The input "abc\ndef" of the rendering example.
ExampleText == <<"a", "b", "c", "\n", "d", "e", "f">>

Texts == UNION {[1..n -> TextChars] : n \in 0..MaxLen} \cup {ExampleText}

\* The descriptions a failure may carry.
Descriptions == {"x", "y"}

\* The line holding offset, read off the text: it starts after the last
\* newline before the offset and ends before the next newline.
RefLineStart(input, offset) ==
    LET nl == {k \in 1..offset : input[k] = "\n"}
    IN  IF nl = {} THEN 0 ELSE CHOOSE k \in nl : \A j \in nl : j <= k

RefLineEnd(input, offset) ==
    LET s == RefLineStart(input, offset)
        nl == {k \in (s + 1)..Len(input) : input[k] = "\n"}
    IN  IF nl = {} THEN Len(input) ELSE (CHOOSE k \in nl : \A j \in nl : k <= j) - 1

RefLine(input, offset) ==
    LET s == RefLineStart(input, offset)
        e == RefLineEnd(input, offset)
        keep == {k \in (s + 1)..e : input[k] \notin WhiteSpace}
        last == IF keep = {} THEN s ELSE CHOOSE k \in keep : \A j \in keep : j <= k
    IN  SubSeq(input, s + 1, last)

\* The expected lists of the tried failures, joined last tried first.
RECURSIVE JoinReversed(_)
JoinReversed(tried) ==
    IF tried = <<>> THEN <<>>
    ELSE tried[Len(tried)].expected \o JoinReversed(SubSeq(tried, 1, Len(tried) - 1))

\* ... and joined in attempt order.
RECURSIVE JoinInOrder(_)
JoinInOrder(tried) ==
    IF tried = <<>> THEN <<>>
    ELSE tried[1].expected \o JoinInOrder(Tail(tried))

\* ----------------------------------------------------- generated scripts

\* The well-formed statements scripts are built from, by name.
StmtIds == {"e", "c", "i", "b", "n"}

StmtText(id) ==
    CASE id = "e" -> <<"t", "r", "u", "e", ";">>
      [] id = "c" -> <<"t", "r", "u", "e", " ", "!", "=", "f", "a", "l", "s", "e", ";">>
      [] id = "i" -> <<"i", "f", "(", "t", "r", "u", "e", ")", " ", "{", " ",
                       "f", "a", "l", "s", "e", ";", "}">>
      [] id = "b" -> <<"{", "t", "r", "u", "e", ";", "\n", "f", "a", "l", "s", "e", ";", "}">>
      [] id = "n" -> <<"{", "}">>

\* Text that is no statement: a character no rule starts with, an
\* expression without its terminator, and a block that is never closed.
BadIds == {"#", "u", "o"}

BadText(id) ==
    CASE id = "#" -> <<"#", ";">>
      [] id = "u" -> <<"t", "r", "u", "e">>
      [] id = "o" -> <<"{", "t", "r", "u", "e", ";">>

Scripts ==
    {in \in [stmts : UNION {[1..n -> StmtIds] : n \in 0..MaxStmts},
             bad : BadIds \cup {"none"},
             badAt : 0..MaxStmts,
             style : Styles] :
        /\ in.badAt <= Len(in.stmts)
        /\ in.bad = "none" => in.badAt = 0}

\* The statements of the script as texts, the bad one in its place.
Pieces(in) ==
    IF in.bad = "none" THEN [k \in 1..Len(in.stmts) |-> StmtText(in.stmts[k])]
    ELSE [k \in 1..(Len(in.stmts) + 1) |->
             IF k <= in.badAt THEN StmtText(in.stmts[k])
             ELSE IF k = in.badAt + 1 THEN BadText(in.bad)
             ELSE StmtText(in.stmts[k - 1])]

RECURSIVE Join(_, _, _)
Join(pieces, style, k) ==
    IF k > Len(pieces) THEN <<>>
    ELSE pieces[k] \o (IF k < Len(pieces) THEN Blank(style) ELSE <<>>)
         \o Join(pieces, style, k + 1)

\* The statements alone, as block_body reads them.
BodyText(in) == Join(Pieces(in), in.style, 1)

\* The statements in braces, as block reads them.
BlockText(in) == <<"{">> \o Blank(in.style) \o BodyText(in) \o Blank(in.style) \o <<"}">>

\* The script, as global_block reads it.
GlobalText(in) == Blank(in.style) \o BodyText(in) \o Blank(in.style)

\* Where the text of piece k starts in BodyText (1-based).
PieceStart(in, k) == Len(Join(SubSeq(Pieces(in), 1, k - 1) \o <<<<>>>>, in.style, 1)) + 1

\* ------------------------------------------------------------ idle values

\* Each specification runs one component and leaves the others idle.
IdleExpr ==
    /\ exprIn = [first |-> "1", rest |-> <<>>, style |-> "tight"]
    /\ exprPc = "off"
    /\ exprRes = NoResult

IdleErr ==
    /\ errText = <<>>
    /\ errPc = "off"
    /\ errTried = <<>>
    /\ errAcc = NoFailure
    /\ errOut = NoOutput

IdleBlk ==
    /\ blkIn = [stmts |-> <<>>, bad |-> "none", badAt |-> 0, style |-> "tight"]
    /\ blkPc = "off"
    /\ blkRes = NoResult

IdleLazy ==
    /\ onceState = "INCOMPLETE"
    /\ lazyCell = None
    /\ lazyM = {}
    /\ builds = 0
    /\ thrPc = [t \in Threads |-> "off"]
    /\ thrSeen = [t \in Threads |-> None]

IdleEv ==
    /\ evCode = <<"EV_KEY", 0>>
    /\ evPc = "off"
    /\ evGroup = NoGroup
    /\ evKey = make_key(<<"EV_SYN", 0>>)

IdleFold ==
    /\ foldIn = [first |-> "1", rest |-> <<>>, style |-> "tight", op |-> "", junk |-> ""]
    /\ foldPc = "off"
    /\ foldRes = NoResult

\* --------------------------------------------------- expression: actions

InitExpr ==
    /\ exprIn \in Inputs
    /\ exprPc = "input"
    /\ exprRes = NoResult
    /\ IdleErr
    /\ IdleBlk
    /\ IdleLazy
    /\ IdleEv
    /\ IdleFold

\* expression.rs expr applied to the text.
ParseExpression ==
    /\ exprPc = "input"
    /\ exprRes' = expr(Render(exprIn), 1)
    /\ exprPc' = "expression"
    /\ UNCHANGED <<exprIn, varsErr, varsBlk, varsLazy, varsEv, varsFold>>

\* mod.rs expr applied to the text (its atoms are those of expr_simple).
ParseModExpr ==
    /\ exprPc = "input"
    /\ AtomsOf(exprIn) \subseteq {"true"}
    /\ exprRes' = mod_expr(Render(exprIn), 1)
    /\ exprPc' = "mod"
    /\ UNCHANGED <<exprIn, varsErr, varsBlk, varsLazy, varsEv, varsFold>>

NextExpr == ParseExpression \/ ParseModExpr

SpecExpr == InitExpr /\ [][NextExpr]_vars

\* C1: an expression of + - * / parses to the tree in which * and / bind
\* tighter than + and - and operators of one level nest to the left.
C1_ArithPrecedence ==
    (exprPc = "expression" /\ OpsOf(exprIn) \subseteq MulOps \cup AddOps)
        => /\ exprRes.ok
           /\ exprRes.pos = Len(Render(exprIn)) + 1
           /\ Len(RefArith(exprIn)) = 1
           /\ exprRes.val = RefArith(exprIn)[1][2]

\* t1 + t2 * t3 has been parsed to Add(t1, Mul(t2, t3)).
C1_Witness ==
    /\ exprPc = "expression"
    /\ Len(exprIn.rest) = 2
    /\ exprIn.rest[1][1] = "+"
    /\ exprIn.rest[2][1] = "*"
    /\ exprRes.ok
    /\ exprRes.val[1] = "Add"
    /\ exprRes.val[3][1] = "Mul"

\* C2: the six operators of expr share one tier and nest to the left in the
\* order written, over additive-level terms that are built first.
C2_OneTierLeftToRight ==
    exprPc = "expression"
        => /\ exprRes.ok
           /\ exprRes.pos = Len(Render(exprIn)) + 1
           /\ Len(RefExpr(exprIn)) = 1
           /\ exprRes.val = RefExpr(exprIn)[1][2]

\* t1 < t2 == t3 has been parsed to Eq(LT(t1, t2), t3).
C2_Witness ==
    /\ exprPc = "expression"
    /\ Len(exprIn.rest) = 2
    /\ exprIn.rest[1][1] = "<"
    /\ exprIn.rest[2][1] = "=="
    /\ exprRes.ok
    /\ exprRes.val[1] = "Eq"
    /\ exprRes.val[2][1] = "LT"

\* C3: in both expr implementations every operator of the last fold gives
\* its own node: t1 op t2 parses to the node named after op.
C3_EveryOperatorItsOwnNode ==
    /\ (exprPc = "expression" /\ Len(exprIn.rest) = 1 /\ exprIn.rest[1][1] \in RelOps)
           => (exprRes.ok /\ exprRes.val[1] = NodeName(exprIn.rest[1][1]))
    /\ (exprPc = "mod" /\ Len(exprIn.rest) = 1 /\ exprIn.rest[1][1] \in {"==", "!="})
           => (exprRes.ok /\ exprRes.val[1] = NodeName(exprIn.rest[1][1]))

\* -------------------------------------------------- diagnostics: actions

InitErr ==
    /\ errText \in Texts
    /\ errPc = "start"
    /\ errTried = <<>>
    /\ errAcc = NoFailure
    /\ errOut = NoOutput
    /\ IdleExpr
    /\ IdleBlk
    /\ IdleLazy
    /\ IdleEv
    /\ IdleFold

\* The failure e of one more alternative: alt keeps the first failure and
\* merges every later one into it with or.
Merge(e) ==
    /\ errPc \in {"start", "failed"}
    /\ Len(errTried) < MaxAlts
    /\ errAcc' = IF errTried = <<>> THEN e ELSE or(errAcc, e)
    /\ errTried' = Append(errTried, e)
    /\ errPc' = "failed"
    /\ UNCHANGED <<errText, errOut, varsExpr, varsBlk, varsLazy, varsEv, varsFold>>

\* An alternative fails on a character it expected.
FailFromChar ==
    \E off \in 0..Len(errText), ch \in Descriptions : Merge(from_char(off, ch))

\* An alternative fails in a combinator that reports an error kind.
FailFromErrorKind ==
    \E off \in 0..Len(errText) : Merge(from_error_kind(off))

\* The accumulated failure is rendered against the original input.
Convert ==
    /\ errPc = "failed"
    /\ errOut' = convert_custom_error(errText, errAcc)
    /\ errPc' = "converted"
    /\ UNCHANGED <<errText, errTried, errAcc, varsExpr, varsBlk, varsLazy, varsEv, varsFold>>

NextErr == FailFromChar \/ FailFromErrorKind \/ Convert

SpecErr == InitErr /\ [][NextErr]_vars

\* C4 as stated: the merged failure lists the descriptions in attempt order.
C4_ExpectedInAttemptOrder ==
    errPc = "failed"
        => /\ errAcc.input = errTried[Len(errTried)].input
           /\ errAcc.expected = JoinInOrder(errTried)

\* C4 as amended: the merged failure has the position of the alternative
\* tried last and lists the descriptions of the alternatives last tried first.
C4_ExpectedLastTriedFirst ==
    errPc = "failed"
        => /\ errAcc.input = errTried[Len(errTried)].input
           /\ errAcc.expected = JoinReversed(errTried)

\* Two alternatives with different descriptions have been merged.
C4_Witness ==
    /\ errPc = "failed"
    /\ Len(errTried) = 2
    /\ errTried[1].expected = <<"x">>
    /\ errTried[2].expected = <<"y">>
    /\ errTried[1].input # errTried[2].input
    /\ errAcc.expected = <<"y", "x">>

\* The message the rendering rules give for a failure at offset.
RefMessage(input, err) ==
    << <<"err: at line", Cardinality({k \in 1..err.input : input[k] = "\n"}) + 1>>,
       RefLine(input, err.input),
       [k \in 1..(err.input - RefLineStart(input, err.input) + 1) |->
           IF k = err.input - RefLineStart(input, err.input) + 1 THEN "^" ELSE " "],
       <<"expected", err.expected[1]>> >>

\* C5: for a non-empty input every failure inside it is rendered as the
\* four-line message of its line, column and first expected description.
C5_RendersEveryFailure ==
    (errPc = "converted" /\ errText # <<>>)
        => /\ ~errOut.aborted
           /\ errOut.lines = RefMessage(errText, errAcc)

\* C6: for the empty input the renderer returns the empty string and does
\* not abort.
C6_EmptyInputEmptyMessage ==
    (errPc = "converted" /\ errText = <<>>)
        => /\ ~errOut.aborted
           /\ errOut.lines = <<>>

\* What does hold of the renderer: it aborts exactly on an empty expected
\* list, and otherwise renders as C5 and C6 say.
RendersWhenExpectedGiven ==
    errPc = "converted"
        => IF errAcc.expected = <<>> THEN errOut = Aborted
           ELSE IF errText = <<>> THEN errOut = Returned(<<>>)
           ELSE errOut = Returned(RefMessage(errText, errAcc))

\* The example: "abc\ndef" with the failure at the d is line 2, text "def",
\* caret in column 1.
RenderedExample ==
    (errPc = "converted" /\ errText = ExampleText /\ errAcc.input = 4
     /\ errAcc.expected # <<>>)
        => /\ errOut.lines[1] = <<"err: at line", 2>>
           /\ errOut.lines[2] = <<"d", "e", "f">>
           /\ errOut.lines[3] = <<"^">>

\* ------------------------------------------------------- blocks: actions

InitBlk ==
    /\ blkIn \in Scripts
    /\ blkPc = "input"
    /\ blkRes = NoResult
    /\ IdleExpr
    /\ IdleErr
    /\ IdleLazy
    /\ IdleEv
    /\ IdleFold

\* block_body applied to the statements.
ParseBlockBody ==
    /\ blkPc = "input"
    /\ blkRes' = block_body(BodyText(blkIn), 1)
    /\ blkPc' = "block_body"
    /\ UNCHANGED <<blkIn, varsExpr, varsErr, varsLazy, varsEv, varsFold>>

\* block applied to the statements in braces.
ParseBlock ==
    /\ blkPc = "input"
    /\ blkRes' = block(BlockText(blkIn), 1)
    /\ blkPc' = "block"
    /\ UNCHANGED <<blkIn, varsExpr, varsErr, varsLazy, varsEv, varsFold>>

\* global_block applied to the script.
ParseGlobalBlock ==
    /\ blkPc = "input"
    /\ blkRes' = global_block(GlobalText(blkIn), 1)
    /\ blkPc' = "global_block"
    /\ UNCHANGED <<blkIn, varsExpr, varsErr, varsLazy, varsEv, varsFold>>

NextBlk == ParseBlockBody \/ ParseBlock \/ ParseGlobalBlock

SpecBlk == InitBlk /\ [][NextBlk]_vars

\* The text the parser named by blkPc was applied to.
ParsedText ==
    CASE blkPc = "block_body" -> BodyText(blkIn)
      [] blkPc = "block" -> BlockText(blkIn)
      [] blkPc = "global_block" -> GlobalText(blkIn)
      [] OTHER -> <<>>

\* The parse of statement k of the script, taken alone.
Alone(k) == stmt(StmtText(blkIn.stmts[k]), 1).val

\* C7 as stated: a script with a statement that does not parse makes
\* global_block fail.
C7_BadStatementFails ==
    (blkPc = "global_block" /\ blkIn.bad # "none") => ~blkRes.ok

\* C7 as amended: global_block succeeds with the Block of the statements
\* before the first one that does not parse, and the remaining input starts
\* at that statement.
C7_BadStatementLeftAsRest ==
    (blkPc = "global_block" /\ blkIn.bad # "none")
        => /\ blkRes.ok
           /\ blkRes.val = Block([k \in 1..blkIn.badAt |-> Alone(k)])
           /\ blkRes.pos = Len(Blank(blkIn.style)) + PieceStart(blkIn, blkIn.badAt + 1)
           /\ blkRes.pos <= Len(ParsedText)

\* global_block has returned one statement and left the unparsed rest.
C7_Witness ==
    /\ blkPc = "global_block"
    /\ blkIn.bad = "#"
    /\ blkIn.badAt = 1
    /\ Len(blkIn.stmts) = 2
    /\ blkRes.ok
    /\ Len(blkRes.val[2]) = 1
    /\ ParsedText[blkRes.pos] = "#"

\* C8: n >= 1 statements parse to a Block of exactly n statements, the i-th
\* being the parse of the i-th statement of the text.
C8_StatementsInSourceOrder ==
    (blkPc \in {"block_body", "block", "global_block"}
     /\ blkIn.bad = "none" /\ Len(blkIn.stmts) >= 1)
        => /\ blkRes.ok
           /\ blkRes.pos = Len(ParsedText) + 1
           /\ blkRes.val = Block([k \in 1..Len(blkIn.stmts) |-> Alone(k)])

\* block has returned three different statements in the order written.
C8_Witness ==
    /\ blkPc = "block"
    /\ blkIn.bad = "none"
    /\ blkIn.stmts = <<"i", "e", "b">>
    /\ blkRes.ok
    /\ Len(blkRes.val[2]) = 3
    /\ blkRes.val[2][1][1] = "If"
    /\ blkRes.val[2][2][1] = "Expr"
    /\ blkRes.val[2][3][1] = "Block"

\* Whether the statements' text starts with no statement.
StartsWithNoStatement == blkIn.stmts = <<>> \/ (blkIn.bad # "none" /\ blkIn.badAt = 0)

\* C9: braces around nothing but whitespace parse to an empty Block and are
\* consumed; block_body on text that starts with no statement returns an
\* empty Block and consumes nothing.
C9_EmptyBlock ==
    /\ (blkPc = "block" /\ blkIn.stmts = <<>> /\ blkIn.bad = "none")
           => (blkRes.ok /\ blkRes.val = Block(<<>>) /\ blkRes.pos = Len(ParsedText) + 1)
    /\ (blkPc = "block_body" /\ StartsWithNoStatement)
           => (blkRes.ok /\ blkRes.val = Block(<<>>) /\ blkRes.pos = 1)

\* block has parsed "{  }" to the empty Block.
C9_Witness ==
    /\ blkPc = "block"
    /\ blkIn.stmts = <<>>
    /\ blkIn.bad = "none"
    /\ blkIn.style = "spaced"
    /\ blkRes.ok
    /\ blkRes.val = Block(<<>>)
    /\ blkRes.pos = 5

\* -------------------------------------------------- alias table: actions

InitLazy ==
    /\ onceState = "INCOMPLETE"
    /\ lazyCell = None
    /\ lazyM = {}
    /\ builds = 0
    /\ thrPc = [t \in Threads |-> "idle"]
    /\ thrSeen = [t \in Threads |-> None]
    /\ IdleExpr
    /\ IdleErr
    /\ IdleBlk
    /\ IdleEv
    /\ IdleFold

\* A thread dereferences KEY_ALIAS_TABLE: it enters the Once, which decides
\* atomically on the state it finds.
Deref(t) ==
    /\ thrPc[t] = "idle"
    /\ thrPc' = [thrPc EXCEPT ![t] = call_once(onceState)]
    /\ IF call_once(onceState) = "build"
       THEN onceState' = "RUNNING" /\ lazyM' = {} /\ builds' = builds + 1
       ELSE UNCHANGED <<onceState, lazyM, builds>>
    /\ UNCHANGED <<lazyCell, thrSeen, varsExpr, varsErr, varsBlk, varsEv, varsFold>>

\* The initializer inserts its next entry into m.
InsertEntry(t) ==
    /\ thrPc[t] = "build"
    /\ Cardinality(lazyM) < Len(AliasEntries)
    /\ lazyM' = insert(lazyM, AliasEntries[Cardinality(lazyM) + 1])
    /\ UNCHANGED <<onceState, lazyCell, builds, thrPc, thrSeen,
                   varsExpr, varsErr, varsBlk, varsEv, varsFold>>

\* The initializer returns m: it is stored and the Once completes.
Publish(t) ==
    /\ thrPc[t] = "build"
    /\ Cardinality(lazyM) = Len(AliasEntries)
    /\ lazyCell' = Some(lazyM)
    /\ onceState' = "COMPLETE"
    /\ thrPc' = [thrPc EXCEPT ![t] = "get"]
    /\ UNCHANGED <<lazyM, builds, thrSeen, varsExpr, varsErr, varsBlk, varsEv, varsFold>>

\* A thread that waited on the running initializer is released.
Wake(t) ==
    /\ thrPc[t] = "wait"
    /\ onceState = "COMPLETE"
    /\ thrPc' = [thrPc EXCEPT ![t] = "get"]
    /\ UNCHANGED <<onceState, lazyCell, lazyM, builds, thrSeen,
                   varsExpr, varsErr, varsBlk, varsEv, varsFold>>

\* The thread reads the table.
Get(t) ==
    /\ thrPc[t] = "get"
    /\ thrSeen' = [thrSeen EXCEPT ![t] = lazyCell]
    /\ thrPc' = [thrPc EXCEPT ![t] = "done"]
    /\ UNCHANGED <<onceState, lazyCell, lazyM, builds, varsExpr, varsErr, varsBlk, varsEv, varsFold>>

\* The lookup returns; the thread may look up again.
Return(t) ==
    /\ thrPc[t] = "done"
    /\ thrPc' = [thrPc EXCEPT ![t] = "idle"]
    /\ UNCHANGED <<onceState, lazyCell, lazyM, builds, thrSeen,
                   varsExpr, varsErr, varsBlk, varsEv, varsFold>>

NextLazy ==
    \/ \E t \in Threads : Deref(t)
    \/ \E t \in Threads : InsertEntry(t)
    \/ \E t \in Threads : Publish(t)
    \/ \E t \in Threads : Wake(t)
    \/ \E t \in Threads : Get(t)
    \/ \E t \in Threads : Return(t)

SpecLazy == InitLazy /\ [][NextLazy]_vars

\* The table with every alias of the initializer.
FullTable == {AliasEntries[k] : k \in 1..Len(AliasEntries)}

\* C10: the table is built once; a caller reads only the complete table,
\* after waiting for it if need be; once built the table stays as it is.
C10_BuiltOnceSeenWhole ==
    /\ builds <= 1
    /\ lazyCell \in {None, Some(FullTable)}
    /\ onceState = "COMPLETE" => lazyCell = Some(FullTable)
    /\ \A t \in Threads :
          /\ thrPc[t] \in {"get", "done"} => onceState = "COMPLETE"
          /\ thrPc[t] = "done" => thrSeen[t] = Some(FullTable)
          /\ thrSeen[t] \in {None, Some(FullTable)}

\* One thread built the table while another waited, and both have read it.
C10_Witness ==
    /\ builds = 1
    /\ lazyCell.some
    /\ Cardinality(lazyCell.table) = Len(AliasEntries)
    /\ \A t \in Threads : thrPc[t] = "done" /\ thrSeen[t] = lazyCell

\* ------------------------------------------------ event templates: actions

InitEv ==
    /\ evCode \in EventCodes
    /\ evPc = "input"
    /\ evGroup = NoGroup
    /\ evKey = make_key(<<"EV_SYN", 0>>)
    /\ IdleExpr
    /\ IdleErr
    /\ IdleBlk
    /\ IdleLazy
    /\ IdleFold

\* InputEvGroup::new(evCode)
NewGroup ==
    /\ evPc = "input"
    /\ evGroup' = InputEvGroup_new(evCode)
    /\ evPc' = "built"
    /\ UNCHANGED <<evCode, evKey, varsExpr, varsErr, varsBlk, varsLazy, varsFold>>

\* to_key on the group built
ToKey ==
    /\ evPc = "built"
    /\ evKey' = InputEvGroup_to_key(evGroup)
    /\ evPc' = "key"
    /\ UNCHANGED <<evCode, evGroup, varsExpr, varsErr, varsBlk, varsLazy, varsFold>>

NextEv == NewGroup \/ ToKey

SpecEv == InitEv /\ [][NextEv]_vars

\* C11: the three templates of a group carry the code it was built for and
\* the zero timestamp and differ only in value, 0 for up, 1 for down and 2
\* for repeat; to_key returns the Key of that code.
C11_TemplatesOfOneCode ==
    /\ evPc \in {"built", "key"}
           => /\ \A e \in {evGroup.up, evGroup.down, evGroup.repeat} :
                    /\ e.event_code = evCode
                    /\ e.time.tv_sec = 0
                    /\ e.time.tv_usec = 0
              /\ evGroup.up.value = 0
              /\ evGroup.down.value = 1
              /\ evGroup.repeat.value = 2
              /\ [evGroup.down EXCEPT !.value = 0] = evGroup.up
              /\ [evGroup.repeat EXCEPT !.value = 0] = evGroup.up
    /\ evPc = "key" => evKey.event_code = evCode

\* A group has been built for key code 1 and to_key has given its Key back.
C11_Witness ==
    /\ evPc = "key"
    /\ evCode = <<"EV_KEY", 1>>
    /\ evGroup.repeat.value = 2
    /\ evGroup.down.event_code = <<"EV_KEY", 1>>
    /\ evKey = make_key(<<"EV_KEY", 1>>)

\* --------------------------------------------------- fold levels: actions

InitFold ==
    /\ foldIn \in FoldInputs
    /\ foldPc = "input"
    /\ foldRes = NoResult
    /\ IdleExpr
    /\ IdleErr
    /\ IdleBlk
    /\ IdleLazy
    /\ IdleEv

\* expr_2 applied to the text.
FoldExpr2 ==
    /\ foldPc = "input"
    /\ foldRes' = expr_2(FoldText(foldIn), 1)
    /\ foldPc' = "expr_2"
    /\ UNCHANGED <<foldIn, varsExpr, varsErr, varsBlk, varsLazy, varsEv>>

\* expr_1 applied to the text.
FoldExpr1 ==
    /\ foldPc = "input"
    /\ foldRes' = expr_1(FoldText(foldIn), 1)
    /\ foldPc' = "expr_1"
    /\ UNCHANGED <<foldIn, varsExpr, varsErr, varsBlk, varsLazy, varsEv>>

\* expr applied to the text.
FoldExpr ==
    /\ foldPc = "input"
    /\ foldRes' = expr(FoldText(foldIn), 1)
    /\ foldPc' = "expr"
    /\ UNCHANGED <<foldIn, varsExpr, varsErr, varsBlk, varsLazy, varsEv>>

NextFold == FoldExpr2 \/ FoldExpr1 \/ FoldExpr

SpecFold == InitFold /\ [][NextFold]_vars

\* C12: a fold level whose next repetition fails, at its operator or after
\* it, succeeds with the tree of the repetitions that matched and leaves the
\* input from where the failed repetition began.
C12_FailedRepetitionRewound ==
    foldPc \in {"expr_2", "expr_1", "expr"}
        => /\ foldRes.ok
           /\ foldRes.pos = Len(Render(Kept(foldIn, foldPc))) + 1
           /\ Len(RefExpr(Kept(foldIn, foldPc))) = 1
           /\ foldRes.val = RefExpr(Kept(foldIn, foldPc))[1][2]

\* 1 * 1 * (1 at expr_2: the second * matched, its term did not; the result
\* is Mul(1, 1) and the input left starts at that second *.
C12_Witness ==
    /\ foldPc = "expr_2"
    /\ foldIn.first = "1"
    /\ foldIn.rest = <<<<"*", "1">>>>
    /\ foldIn.style = "spaced"
    /\ foldIn.op = "*"
    /\ foldIn.junk = "(1"
    /\ foldRes.ok
    /\ foldRes.val[1] = "Mul"
    /\ Rest(FoldText(foldIn), foldRes.pos) = <<"*", " ", "(", "1">>

\* ------------------------------------------------------------- the whole

Init == InitExpr \/ InitErr \/ InitBlk \/ InitLazy \/ InitEv \/ InitFold

Next == NextExpr \/ NextErr \/ NextBlk \/ NextLazy \/ NextEv \/ NextFold

Spec == Init /\ [][Next]_vars

====
